---- MODULE Spec2Model ----
(***************************************************************************)
(* A model of src/animation_controller.py: Skeleton.get_chain, forward     *)
(* and inverse kinematics, Clip (add_keyframe, duration, sample) and the   *)
(* Animator playback state machine.                                        *)
(*                                                                         *)
(* Numbers.  Python floats are modelled by exact arithmetic: times (clock, *)
(* keyframe times, dt, durations) are integers, angles and blend factors   *)
(* are rationals <<n, d>> in lowest terms with d > 0.  Floating-point      *)
(* rounding is outside the model.  cos and sin are left unevaluated: a     *)
(* world coordinate is the formal sum  x0 + SUM length * cos(angle), kept  *)
(* as the sequence <<x0, <<length, angle>>, ...>>  (sin for world_y).      *)
(* Inverse kinematics alone evaluates them, on the x axis (see SpecIK).    *)
(*                                                                         *)
(* Python's None is NoneId for a bone id and NoClip for a clip name.       *)
(***************************************************************************)
EXTENDS Integers, Sequences, FiniteSets, TLC

VARIABLES
    \* ---- Animator (src lines 342-352) and its Skeleton (lines 85-91)
    clips, state, current_clip, blend_clip, blend_alpha,
    time, speed, blend_duration, blend_time,
    bones, root_x, root_y,
    \* ---- history of the calls made on the Animator
    last, since,
    \* ---- one Clip under construction and the last sample() made on it
    clip, inserted, sampled,
    \* ---- the locals of one Skeleton.get_chain call
    chain, bid, visited, pc, end_bone_id, result,
    \* ---- the skeleton as it was before the last forward-kinematics pass
    prev_bones, fk_ran,
    \* ---- the last calculate_inverse_kinematics call
    ik

animVars  == <<clips, state, current_clip, blend_clip, blend_alpha,
               time, speed, blend_duration, blend_time>>
skelVars  == <<bones, root_x, root_y>>
histVars  == <<last, since>>
clipVars  == <<clip, inserted, sampled>>
chainVars == <<chain, bid, visited, pc, end_bone_id, result>>
fkVars    == <<prev_bones, fk_ran>>
ikVars    == <<ik>>
vars      == <<animVars, skelVars, histVars, clipVars, chainVars, fkVars,
               ikVars>>

-----------------------------------------------------------------------------
(* Bounds                                                                  *)

\* most keyframes added to the clip under construction
MaxKeyframes == 3
\* the Animator's clock is not advanced past this time
MaxTime == 2
\* bones of the skeletons get_chain and forward kinematics are run on
MaxBones == 3
\* most inverse-kinematics solves made on one skeleton
MaxSolves == 2

-----------------------------------------------------------------------------
(* Exact rational arithmetic                                               *)

Abs(n) == IF n < 0 THEN -n ELSE n

RECURSIVE GCD(_, _)
GCD(a, b) == IF b = 0 THEN a ELSE GCD(b, a % b)

\* n/d in lowest terms, d > 0
Frac(n, d) ==
    LET s == IF d < 0 THEN -1 ELSE 1
        g == GCD(Abs(n), Abs(d))
    IN  <<(s * n) \div g, (s * d) \div g>>

Int2R(n)   == <<n, 1>>
Zero       == <<0, 1>>
One        == <<1, 1>>
RAdd(a, b) == Frac(a[1] * b[2] + b[1] * a[2], a[2] * b[2])
RSub(a, b) == Frac(a[1] * b[2] - b[1] * a[2], a[2] * b[2])
RMul(a, b) == Frac(a[1] * b[1], a[2] * b[2])
RLe(a, b)  == a[1] * b[2] <= b[1] * a[2]
RMin(a, b) == IF RLe(a, b) THEN a ELSE b
RMax(a, b) == IF RLe(a, b) THEN b ELSE a

\* a + (b - a) * alpha, the interpolation both sample() and update() use
Lerp(a, b, alpha) == RAdd(a, RMul(RSub(b, a), alpha))

\* dict.get(key, 0.0)
Get(m, key) == IF key \in DOMAIN m THEN m[key] ELSE Zero

EmptyMap == [x \in {} |-> Zero]

Min(a, b) == IF a <= b THEN a ELSE b

-----------------------------------------------------------------------------
(* Keyframe and Clip                                                       *)

LoopModes == {"once", "loop", "ping_pong"}
Easings   == {"linear", "step", "cubic"}

Keyframe(t, angles, easing) ==
    [time |-> t, bone_angles |-> angles, easing |-> easing]

\* list.sort(key=lambda k: k.time): a stable sort, here by insertion from
\* the left, each element going after those whose time is not larger
InsertByTime(sorted, k) ==
    LET n   == Len(sorted)
        pos == Cardinality({i \in 1..n : sorted[i].time <= k.time})
    IN  [i \in 1..(n + 1) |->
            IF i <= pos THEN sorted[i]
            ELSE IF i = pos + 1 THEN k
            ELSE sorted[i - 1]]

RECURSIVE SortByTime(_)
SortByTime(s) ==
    IF s = <<>> THEN <<>>
    ELSE InsertByTime(SortByTime(SubSeq(s, 1, Len(s) - 1)), s[Len(s)])

\* a faulty add_keyframe that appends and does not sort
AppendUnsorted(kfs, k) == Append(kfs, k)

\* Clip.add_keyframe: append, then sort
add_keyframe(kfs, k) == SortByTime(Append(kfs, k))

\* Clip.duration
duration(kfs) == IF kfs = <<>> THEN 0 ELSE kfs[Len(kfs)].time

\* the looping step of Clip.sample
NormalizeTime(kfs, loop_mode, t) ==
    LET d == duration(kfs)
    IN  IF d > 0
        THEN CASE loop_mode = "loop" -> t % d
               [] loop_mode = "ping_pong" ->
                    LET cycle == t % (d * 2)
                    IN  IF cycle <= d THEN cycle ELSE d * 2 - cycle
               [] OTHER -> Min(t, d)
        ELSE t

\* the interpolation factor of the bracketing pair
EaseAlpha(k0, k1, t) ==
    LET span  == k1.time - k0.time
        alpha == IF span > 0 THEN Frac(t - k0.time, span) ELSE Zero
    IN  CASE k0.easing = "cubic" ->
                RMul(RMul(alpha, alpha), RSub(Int2R(3), RMul(Int2R(2), alpha)))
          [] k0.easing = "step" -> Zero
          [] OTHER -> alpha

Interpolate(k0, k1, t) ==
    LET alpha == EaseAlpha(k0, k1, t)
    IN  [b \in (DOMAIN k0.bone_angles) \cup (DOMAIN k1.bone_angles) |->
            Lerp(Get(k0.bone_angles, b), Get(k1.bone_angles, b), alpha)]

\* the pairs the scan of Clip.sample accepts
Brackets(kfs, t) ==
    {i \in 1..(Len(kfs) - 1) : kfs[i].time <= t /\ t <= kfs[i + 1].time}

\* a faulty first test, < for <=
AtOrBeforeFirstStrict(kfs, t) == t < kfs[1].time

\* the two early returns of Clip.sample
AtOrBeforeFirst(kfs, t) == t <= kfs[1].time
AtOrAfterLast(kfs, t)   == t >= kfs[Len(kfs)].time

\* Clip.sample(t)
sample(kfs, loop_mode, t0) ==
    IF kfs = <<>> THEN EmptyMap
    ELSE LET t == NormalizeTime(kfs, loop_mode, t0)
             n == Len(kfs)
         IN  IF AtOrBeforeFirst(kfs, t) THEN kfs[1].bone_angles
             ELSE IF AtOrAfterLast(kfs, t) THEN kfs[n].bone_angles
             ELSE IF Brackets(kfs, t) # {}
                  THEN LET i == CHOOSE i \in Brackets(kfs, t) :
                                    \A j \in Brackets(kfs, t) : i <= j
                       IN  Interpolate(kfs[i], kfs[i + 1], t)
                  ELSE kfs[n].bone_angles

-----------------------------------------------------------------------------
(* The values the other specifications leave alone                         *)

NoneId == -1
NoClip == "None"

NoSample == [called |-> FALSE, t |-> 0, result |-> EmptyMap]

IdleAnim ==
    /\ clips = EmptyMap
    /\ state = "stopped"
    /\ current_clip = NoClip
    /\ blend_clip = NoClip
    /\ blend_alpha = Zero
    /\ time = 0
    /\ speed = 1
    /\ blend_duration = 0
    /\ blend_time = 0

IdleSkel ==
    /\ bones = EmptyMap
    /\ root_x = 0
    /\ root_y = 0

IdleHist ==
    /\ last = [op |-> "init", missing |-> FALSE, raised |-> FALSE]
    /\ since = [op |-> "none"]

IdleClip ==
    /\ clip = [name |-> "c", keyframes |-> <<>>, loop_mode |-> "loop"]
    /\ inserted = <<>>
    /\ sampled = NoSample

IdleChain ==
    /\ chain = <<>>
    /\ bid = NoneId
    /\ visited = {}
    /\ pc = "idle"
    /\ end_bone_id = NoneId
    /\ result = <<>>

IdleFK ==
    /\ prev_bones = EmptyMap
    /\ fk_ran = FALSE

\* no solve since the pose was last set, after n solves in all
NoIK(n) == [called |-> FALSE, solves |-> n]

IdleIK == ik = NoIK(0)

-----------------------------------------------------------------------------
(* SpecClip: a Clip built by add_keyframe calls and sampled                *)

KfTimes     == 0..2
SampleTimes == -3..6

\* the bone_angles mappings keyframes are built from: the keyframes added
\* first, third, ... carry AnglesA, the others AnglesB
AnglesA == (0 :> Int2R(4)) @@ (1 :> Int2R(8))
AnglesB == (1 :> Int2R(-4)) @@ (2 :> Int2R(12))
KfAngles(n) == IF n % 2 = 1 THEN AnglesA ELSE AnglesB

KfPool(n) == {Keyframe(t, KfAngles(n), e) : t \in KfTimes, e \in Easings}

InitClip ==
    /\ \E m \in LoopModes :
          clip = [name |-> "c", keyframes |-> <<>>, loop_mode |-> m]
    /\ inserted = <<>>
    /\ sampled = NoSample
    /\ IdleAnim /\ IdleSkel /\ IdleHist /\ IdleChain /\ IdleFK /\ IdleIK

AddKeyframe ==
    /\ Len(inserted) < MaxKeyframes
    /\ \E k \in KfPool(Len(inserted) + 1) :
          /\ clip' = [clip EXCEPT !.keyframes = add_keyframe(@, k)]
          /\ inserted' = Append(inserted, k)
    /\ sampled' = NoSample
    /\ UNCHANGED <<animVars, skelVars, histVars, chainVars, fkVars, ikVars>>

Sample ==
    /\ \E t \in SampleTimes :
          sampled' = [called |-> TRUE, t |-> t,
                      result |-> sample(clip.keyframes, clip.loop_mode, t)]
    /\ UNCHANGED <<clip, inserted>>
    /\ UNCHANGED <<animVars, skelVars, histVars, chainVars, fkVars, ikVars>>

NextClip == AddKeyframe \/ Sample

SpecClip == InitClip /\ [][NextClip]_vars
-----------------------------------------------------------------------------
(* Claims about Clip, checked under SpecClip                               *)

Range(s) == {s[i] : i \in DOMAIN s}
Count(s, x) == Cardinality({i \in DOMAIN s : s[i] = x})

kfs0   == clip.keyframes
FirstK == kfs0[1]
LastK  == kfs0[Len(kfs0)]

\* C8: after any sequence of add_keyframe calls on an empty Clip the
\* keyframes are sorted ascending by time, hold every inserted keyframe
\* exactly as often as it was inserted, and duration is the largest
\* inserted time.
C8_SortedCompleteDuration ==
    /\ \A i \in 1..(Len(kfs0) - 1) : kfs0[i].time <= kfs0[i + 1].time
    /\ Len(kfs0) = Len(inserted)
    /\ \A k \in Range(inserted) \cup Range(kfs0) :
          Count(kfs0, k) = Count(inserted, k)
    /\ inserted # <<>> =>
          /\ \E i \in DOMAIN inserted : inserted[i].time = duration(kfs0)
          /\ \A i \in DOMAIN inserted : inserted[i].time <= duration(kfs0)

\* three keyframes added out of time order, two of them at one time
C8_Witness ==
    /\ Len(inserted) = 3
    /\ inserted[1].time > inserted[2].time
    /\ inserted[3].time = inserted[1].time
    /\ kfs0 # inserted

\* C6 as claimed: sample(t) for any t <= the first keyframe's time is the
\* first keyframe's mapping under every loop mode, and under Once sample(t)
\* for any t >= the last keyframe's time is the last keyframe's mapping.
C6_AsClaimed ==
    (sampled.called /\ kfs0 # <<>>) =>
        /\ sampled.t <= FirstK.time => sampled.result = FirstK.bone_angles
        /\ (clip.loop_mode = "once" /\ sampled.t >= LastK.time) =>
              sampled.result = LastK.bone_angles

\* C6 amended: sample(t) is the first keyframe's mapping for t <= its time
\* under Once and for 0 <= t <= its time under Loop and PingPong; under
\* Once sample(t) for t >= the last keyframe's time is the last keyframe's
\* mapping when the first keyframe is earlier than the last or the clip has
\* one keyframe.
C6_Boundaries ==
    (sampled.called /\ kfs0 # <<>>) =>
        /\ (sampled.t <= FirstK.time
              /\ (clip.loop_mode = "once" \/ sampled.t >= 0)) =>
              sampled.result = FirstK.bone_angles
        /\ (clip.loop_mode = "once" /\ sampled.t >= LastK.time
              /\ (FirstK.time < LastK.time \/ Len(kfs0) = 1)) =>
              sampled.result = LastK.bone_angles

\* a sample past the end of a Once clip whose first and last keyframes differ,
\* or a sample before the first keyframe of a looping clip
C6_Witness ==
    /\ sampled.called
    /\ Len(kfs0) >= 2
    /\ FirstK.bone_angles # LastK.bone_angles
    /\ \/ /\ clip.loop_mode = "once"
          /\ FirstK.time < LastK.time
          /\ sampled.t > LastK.time
          /\ sampled.result = LastK.bone_angles
       \/ /\ clip.loop_mode = "loop"
          /\ 0 < sampled.t /\ sampled.t <= FirstK.time
          /\ sampled.result = FirstK.bone_angles

\* C7 as claimed: for consecutive keyframes k0, k1 with k0.easing = Step and
\* k0.time < k1.time, every normalized time t with k0.time <= t < k1.time
\* samples to exactly k0's angle for every bone of k0.
C7_StepHolds ==
    sampled.called =>
        LET t == NormalizeTime(kfs0, clip.loop_mode, sampled.t)
        IN  \A i \in 1..(Len(kfs0) - 1) :
               (/\ kfs0[i].easing = "step"
                /\ kfs0[i].time < kfs0[i + 1].time
                /\ kfs0[i].time <= t /\ t < kfs0[i + 1].time) =>
                   \A b \in DOMAIN kfs0[i].bone_angles :
                      /\ b \in DOMAIN sampled.result
                      /\ sampled.result[b] = kfs0[i].bone_angles[b]
\* C7 for clips whose keyframe times are all distinct: the same statement,
\* which fails there too (at t = k0.time when the keyframe before k0 is Step).
C7_StepHoldsDistinctTimes ==
    (\A i \in 1..(Len(kfs0) - 1) : kfs0[i].time < kfs0[i + 1].time) =>
        C7_StepHolds

-----------------------------------------------------------------------------
(* Bone and Skeleton                                                       *)

\* Bone(id, name, parent_id, length, rest_angle) with the dataclass defaults
\* for current_angle and the world fields, stale standing for a world
\* coordinate set before (0 is the default)
Bone(id, parent_id, length, rest_angle, stale) ==
    [id |-> id, parent_id |-> parent_id, length |-> length,
     rest_angle |-> rest_angle, current_angle |-> Zero,
     world_x |-> <<stale>>, world_y |-> <<stale>>, world_angle |-> Zero]

\* Bone.tip_x, Bone.tip_y: world_x + length * cos(world_angle), and sin
tip_x(b) == Append(b.world_x, <<b.length, b.world_angle>>)
tip_y(b) == Append(b.world_y, <<b.length, b.world_angle>>)

\* Skeleton.get_children, in the order of the bones dict (ascending id here)
RECURSIVE SetToSeq(_)
SetToSeq(S) ==
    IF S = {} THEN <<>>
    ELSE LET m == CHOOSE x \in S : \A y \in S : x <= y
         IN  <<m>> \o SetToSeq(S \ {m})

get_children(bs, parent_id) ==
    SetToSeq({i \in DOMAIN bs : bs[i].parent_id = parent_id})

\* Skeleton.root_bones
root_bones(bs) == SetToSeq({i \in DOMAIN bs : bs[i].parent_id = NoneId})

\* an id no skeleton holds
MissingId == MaxBones + 1

BoneIds == 0..(MaxBones - 1)
ParentIds == {NoneId, MissingId} \cup BoneIds

\* every skeleton over BoneIds: each parent link is None, a bone (itself
\* included, so cycles occur) or a missing id
Skeletons(stale) ==
    {[i \in BoneIds |-> Bone(i, par[i], i + 1, Int2R(i), stale)] :
        par \in [BoneIds -> ParentIds]}

-----------------------------------------------------------------------------
(* SpecChain: Skeleton.get_chain, one loop iteration per step              *)

Reverse(s) == [i \in 1..Len(s) |-> s[Len(s) + 1 - i]]

\* a faulty return that hands back the walk order, end bone first
Unreversed(s) == s

\* chain[::-1]
ChainResult(s) == Reverse(s)

InitChain ==
    /\ bones \in Skeletons(0)
    /\ root_x = 0 /\ root_y = 0
    /\ IdleChain
    /\ IdleAnim /\ IdleHist /\ IdleClip /\ IdleFK /\ IdleIK

\* lines 110-112
ChainCall ==
    /\ pc \in {"idle", "done"}
    /\ \E e \in BoneIds \cup {MissingId, NoneId} :
          /\ end_bone_id' = e
          /\ bid' = e
    /\ chain' = <<>>
    /\ visited' = {}
    /\ pc' = "loop"
    /\ result' = <<>>
    /\ UNCHANGED <<animVars, skelVars, histVars, clipVars, fkVars, ikVars>>

\* lines 113-119: the loop test and one iteration
ChainLoop ==
    /\ pc = "loop"
    /\ IF bid # NoneId /\ bid \notin visited
       THEN IF bid \notin DOMAIN bones
            THEN /\ pc' = "return"
                 /\ UNCHANGED <<chain, visited, bid>>
            ELSE /\ chain' = Append(chain, bid)
                 /\ visited' = visited \cup {bid}
                 /\ bid' = bones[bid].parent_id
                 /\ pc' = "loop"
       ELSE /\ pc' = "return"
            /\ UNCHANGED <<chain, visited, bid>>
    /\ UNCHANGED <<end_bone_id, result>>
    /\ UNCHANGED <<animVars, skelVars, histVars, clipVars, fkVars, ikVars>>

\* line 120
ChainReturn ==
    /\ pc = "return"
    /\ result' = ChainResult(chain)
    /\ pc' = "done"
    /\ UNCHANGED <<chain, visited, bid, end_bone_id>>
    /\ UNCHANGED <<animVars, skelVars, histVars, clipVars, fkVars, ikVars>>

NextChain == ChainCall \/ ChainLoop \/ ChainReturn

\* a call runs to completion: the code is synchronous
SpecChain ==
    InitChain /\ [][NextChain]_vars
              /\ WF_vars(ChainLoop) /\ WF_vars(ChainReturn)

\* C9: get_chain terminates on every skeleton, cyclic or with missing
\* parents, and returns a root-first sequence without repeats in which each
\* bone is the parent of the next and the last is end_id (empty when end_id
\* is not in the skeleton); the walk has stopped at a root, at a missing
\* parent or at the first revisited id.
ChainShape ==
    pc = "done" =>
        /\ \A i, j \in DOMAIN result : result[i] = result[j] => i = j
        /\ \A i \in DOMAIN result : result[i] \in DOMAIN bones
        /\ \A i \in 1..(Len(result) - 1) :
              bones[result[i + 1]].parent_id = result[i]
        /\ IF end_bone_id \in DOMAIN bones
           THEN /\ result # <<>>
                /\ result[Len(result)] = end_bone_id
                /\ LET top == bones[result[1]].parent_id
                   IN  \/ top = NoneId
                       \/ top \notin DOMAIN bones
                       \/ top \in Range(result)
           ELSE result = <<>>

C9_GetChain == []ChainShape /\ ((pc = "loop") ~> (pc = "done"))

\* a call returned on a skeleton whose parent links form a cycle of two
\* bones, the chain holding both
C9_Witness ==
    /\ pc = "done"
    /\ Len(result) = 2
    /\ bones[result[1]].parent_id = result[2]
    /\ bones[result[2]].parent_id = result[1]
-----------------------------------------------------------------------------
(* Forward kinematics                                                      *)

\* a faulty _process that hands a child the bone's origin, not its tip
ChildAtParentOrigin(bs, id) == bs[id].world_x

\* the position _process hands to a child: the parent's tip (line 147)
ChildOriginX(bs, id) == tip_x(bs[id])
ChildOriginY(bs, id) == tip_y(bs[id])

\* _process (lines 138-147): set the bone's world fields, then recurse into
\* its children, each given the bone's tip and world angle
RECURSIVE Process(_, _, _, _, _)
RECURSIVE ProcessChildren(_, _, _)
Process(bs, bone_id, parent_world_x, parent_world_y, parent_world_angle) ==
    IF bone_id \notin DOMAIN bs THEN bs
    ELSE LET b  == bs[bone_id]
             nb == [b EXCEPT
                      !.world_x = parent_world_x,
                      !.world_y = parent_world_y,
                      !.world_angle =
                          RAdd(RAdd(parent_world_angle, b.rest_angle),
                               b.current_angle)]
             bs1 == [bs EXCEPT ![bone_id] = nb]
         IN  ProcessChildren(bs1, bone_id, get_children(bs1, bone_id))

ProcessChildren(bs, bone_id, kids) ==
    IF kids = <<>> THEN bs
    ELSE ProcessChildren(
            Process(bs, kids[1], ChildOriginX(bs, bone_id),
                    ChildOriginY(bs, bone_id), bs[bone_id].world_angle),
            bone_id, Tail(kids))

RECURSIVE ProcessRoots(_, _, _, _)
ProcessRoots(bs, roots, rx, ry) ==
    IF roots = <<>> THEN bs
    ELSE ProcessRoots(Process(bs, roots[1], <<rx>>, <<ry>>, Zero),
                      Tail(roots), rx, ry)

\* calculate_forward_kinematics(skeleton), lines 149-150
calculate_forward_kinematics(bs, rx, ry) ==
    ProcessRoots(bs, root_bones(bs), rx, ry)

\* Animator.update lines 433-436: write the pose onto the bones it names
ApplyAngles(bs, pose) ==
    [i \in DOMAIN bs |->
        IF i \in DOMAIN pose THEN [bs[i] EXCEPT !.current_angle = pose[i]]
        ELSE bs[i]]

\* Animator.update lines 433-438
ApplyPose(bs, pose, rx, ry) ==
    calculate_forward_kinematics(ApplyAngles(bs, pose), rx, ry)

-----------------------------------------------------------------------------
(* SpecFK: forward kinematics on every skeleton over BoneIds               *)

\* the angles a caller or a pose writes
FKAngles == {Frac(1, 2)}

\* the poses update may apply: bone 1 alone, or bones 0 and 3
FKPoses == {(1 :> Frac(1, 2)), (0 :> Int2R(1)) @@ (3 :> Int2R(2))}

InitFK ==
    /\ bones \in Skeletons(7)
    /\ root_x = 5
    /\ root_y = 3
    /\ prev_bones = EmptyMap
    /\ fk_ran = FALSE
    /\ IdleAnim /\ IdleHist /\ IdleClip /\ IdleChain /\ IdleIK

\* bone.current_angle = a, as inverse kinematics or a caller does
SetAngle ==
    /\ \E i \in DOMAIN bones, a \in FKAngles :
          /\ bones[i].current_angle = Zero
          /\ bones' = [bones EXCEPT ![i].current_angle = a]
    /\ fk_ran' = FALSE
    /\ UNCHANGED <<root_x, root_y, prev_bones>>
    /\ UNCHANGED <<animVars, histVars, clipVars, chainVars, ikVars>>

\* calculate_forward_kinematics(skeleton)
RunFK ==
    /\ prev_bones' = bones
    /\ bones' = calculate_forward_kinematics(bones, root_x, root_y)
    /\ fk_ran' = TRUE
    /\ UNCHANGED <<root_x, root_y>>
    /\ UNCHANGED <<animVars, histVars, clipVars, chainVars, ikVars>>

\* the tail of Animator.update: apply a pose, then forward kinematics
ApplyPoseFK ==
    /\ \E pose \in FKPoses :
          /\ prev_bones' = ApplyAngles(bones, pose)
          /\ bones' = ApplyPose(bones, pose, root_x, root_y)
    /\ fk_ran' = TRUE
    /\ UNCHANGED <<root_x, root_y>>
    /\ UNCHANGED <<animVars, histVars, clipVars, chainVars, ikVars>>

NextFK == SetAngle \/ RunFK \/ ApplyPoseFK

SpecFK == InitFK /\ [][NextFK]_vars

\* the parent links from bone i lead to a root
RECURSIVE ReachesRoot(_, _, _)
ReachesRoot(bs, i, seen) ==
    /\ i \in DOMAIN bs
    /\ i \notin seen
    /\ \/ bs[i].parent_id = NoneId
       \/ ReachesRoot(bs, bs[i].parent_id, seen \cup {i})

\* C10: after calculate_forward_kinematics every root bone is at the root
\* anchor with world_angle = rest_angle + current_angle, every other bone
\* whose ancestors reach a root is at its parent's tip with world_angle =
\* parent.world_angle + rest_angle + current_angle, and a bone whose
\* parent_id names no bone keeps its previous world_x, world_y, world_angle.
C10_ForwardKinematics ==
    fk_ran =>
        \A i \in DOMAIN bones :
            LET b == bones[i]
                local == RAdd(b.rest_angle, b.current_angle)
            IN  /\ b.parent_id = NoneId =>
                      /\ b.world_x = <<root_x>>
                      /\ b.world_y = <<root_y>>
                      /\ b.world_angle = local
                /\ (b.parent_id # NoneId /\ ReachesRoot(bones, i, {})) =>
                      /\ b.world_x = tip_x(bones[b.parent_id])
                      /\ b.world_y = tip_y(bones[b.parent_id])
                      /\ b.world_angle =
                            RAdd(bones[b.parent_id].world_angle, local)
                /\ (b.parent_id # NoneId /\ b.parent_id \notin DOMAIN bones) =>
                      /\ b.world_x = prev_bones[i].world_x
                      /\ b.world_y = prev_bones[i].world_y
                      /\ b.world_angle = prev_bones[i].world_angle

\* forward kinematics ran on a chain root -> child -> grandchild with changed
\* angles, next to nothing stale, or on a skeleton with an orphan holding a
\* stale position
C10_Witness ==
    /\ fk_ran
    /\ \E i, j, k \in DOMAIN bones :
          /\ bones[i].parent_id = NoneId
          /\ bones[j].parent_id = i
          /\ bones[k].parent_id \notin DOMAIN bones \cup {NoneId}
          /\ bones[j].current_angle # Zero
          /\ bones[j].world_x = tip_x(bones[i])
          /\ bones[k].world_x = <<7>>
          /\ root_x = 5
-----------------------------------------------------------------------------
(* Inverse kinematics (FABRIK)                                             *)
(*                                                                         *)
(* SpecIK keeps the skeleton on the x axis, where the geometry is exact:   *)
(* a world_angle is a whole number of half turns (the angle a stands for   *)
(* a * pi radians), so cos is 1 or -1 and sin is 0; every world_y is 0, so *)
(* math.dist is |dx| and atan2(0, dx) is 0 or one half turn.  There        *)
(* world_x and world_y hold the evaluated coordinate <<x>>, an integer,    *)
(* and a point is a pair <<x, y>> of rationals.                            *)

RDiv(a, b) == Frac(a[1] * b[2], a[2] * b[1])
RLt(a, b)  == a[1] * b[2] < b[1] * a[2]
RAbs(a)    == <<Abs(a[1]), a[2]>>

\* math.cos and math.sin of a whole number of half turns
Cos(a) == CASE a[2] = 1 -> IF a[1] % 2 = 0 THEN 1 ELSE -1
Sin(a) == CASE a[2] = 1 -> 0

\* the value of the formal sum x0 + SUM length * cos(angle), and of the sum
\* with sin
RECURSIVE EvalCos(_)
EvalCos(s) ==
    IF Len(s) = 1 THEN s[1]
    ELSE EvalCos(SubSeq(s, 1, Len(s) - 1)) + s[Len(s)][1] * Cos(s[Len(s)][2])

RECURSIVE EvalSin(_)
EvalSin(s) ==
    IF Len(s) = 1 THEN s[1]
    ELSE EvalSin(SubSeq(s, 1, Len(s) - 1)) + s[Len(s)][1] * Sin(s[Len(s)][2])

\* the skeleton with every world coordinate evaluated
Evaluated(bs) ==
    [i \in DOMAIN bs |-> [bs[i] EXCEPT !.world_x = <<EvalCos(@)>>,
                                       !.world_y = <<EvalSin(@)>>]]

\* math.dist of two points of one horizontal line
Dist(p, q) == CASE p[2] = q[2] -> RAbs(RSub(p[1], q[1]))

\* math.atan2(dy, dx) on a horizontal line, in half turns
Atan2(dy, dx) == CASE dy = Zero -> IF RLt(dx, Zero) THEN One ELSE Zero

\* the float px written to a bone, the coordinates on the axis being whole
ToInt(r) == CASE r[2] = 1 -> r[1]

\* the denominator that stands in for r = 0: 1e-9 in the source, a coarser
\* value here to stay within TLC's integers (where r = 0 the two points
\* coincide and the result does not depend on it)
Epsilon == Frac(1, 1000)

\* bone_lengths[i] / (r if r > 0 else 1e-9)
Lam(length, r) == RDiv(Int2R(length), IF RLt(Zero, r) THEN r ELSE Epsilon)

\* ((1 - lam) * p[0] + lam * q[0], (1 - lam) * p[1] + lam * q[1])
Mix(p, q, lam) ==
    <<RAdd(RMul(RSub(One, lam), p[1]), RMul(lam, q[1])),
      RAdd(RMul(RSub(One, lam), p[2]), RMul(lam, q[2]))>>

\* lines 189-196: the stretch pass, from index i on
RECURSIVE Stretch(_, _, _, _)
Stretch(positions, bone_lengths, target, i) ==
    IF i > Len(bone_lengths) THEN positions
    ELSE LET r   == Dist(positions[i], target)
             lam == Lam(bone_lengths[i], r)
         IN  Stretch([positions EXCEPT ![i + 1] = Mix(positions[i], target, lam)],
                     bone_lengths, target, i + 1)

\* lines 201-206: forward reaching, from index i down
RECURSIVE ForwardReach(_, _, _)
ForwardReach(positions, bone_lengths, i) ==
    IF i < 1 THEN positions
    ELSE LET r   == Dist(positions[i], positions[i + 1])
             lam == Lam(bone_lengths[i], r)
         IN  ForwardReach(
                 [positions EXCEPT ![i] = Mix(positions[i + 1], positions[i], lam)],
                 bone_lengths, i - 1)

\* lines 209-214: backward reaching, from index i on
RECURSIVE BackwardReach(_, _, _)
BackwardReach(positions, bone_lengths, i) ==
    IF i > Len(bone_lengths) THEN positions
    ELSE LET r   == Dist(positions[i], positions[i + 1])
             lam == Lam(bone_lengths[i], r)
         IN  BackwardReach(
                 [positions EXCEPT ![i + 1] = Mix(positions[i], positions[i + 1], lam)],
                 bone_lengths, i + 1)

\* the defaults of calculate_inverse_kinematics
Iterations == 20
Tolerance  == Frac(1, 100)

\* lines 198-217: at most n more rounds of forward and backward reaching
RECURSIVE Reach(_, _, _, _, _)
Reach(positions, bone_lengths, root_pos, target, n) ==
    IF n = 0 THEN positions
    ELSE LET fwd  == ForwardReach(
                         [positions EXCEPT ![Len(positions)] = target],
                         bone_lengths, Len(bone_lengths))
             back == BackwardReach([fwd EXCEPT ![1] = root_pos],
                                   bone_lengths, 1)
         IN  IF RLt(Dist(back[Len(back)], target), Tolerance)
             THEN back
             ELSE Reach(back, bone_lengths, root_pos, target, n - 1)

RECURSIVE Sum(_)
Sum(s) == IF s = <<>> THEN 0 ELSE s[1] + Sum(Tail(s))

\* Skeleton.get_chain as one call: the walk from bone id b up the parent
\* links, then reversed
RECURSIVE Walk(_, _, _, _)
Walk(bs, b, seen, walked) ==
    IF b # NoneId /\ b \notin seen /\ b \in DOMAIN bs
    THEN Walk(bs, bs[b].parent_id, seen \cup {b}, Append(walked, b))
    ELSE walked

get_chain(bs, end_id) == ChainResult(Walk(bs, end_id, {}, <<>>))

\* lines 174-179: the joints of the chain and the tip of its last bone
Positions(bs, ch) ==
    [i \in 1..(Len(ch) + 1) |->
        IF i <= Len(ch)
        THEN <<Int2R(bs[ch[i]].world_x[1]), Int2R(bs[ch[i]].world_y[1])>>
        ELSE <<Int2R(EvalCos(tip_x(bs[ch[Len(ch)]]))),
               Int2R(EvalSin(tip_y(bs[ch[Len(ch)]])))>>]

\* lines 185-217
Solve(positions, bone_lengths, target) ==
    LET total_length   == Sum(bone_lengths)
        dist_to_target == Dist(positions[1], target)
    IN  IF RLt(Int2R(total_length), dist_to_target)
        THEN Stretch(positions, bone_lengths, target, 1)
        ELSE Reach(positions, bone_lengths, positions[1], target, Iterations)

\* lines 219-233: the positions written back to the bones of the chain,
\* root first, each bone reading its parent's world_angle as it then is
RECURSIVE WriteBack(_, _, _, _)
WriteBack(bs, ch, positions, i) ==
    IF i > Len(ch) THEN bs
    ELSE LET bone == bs[ch[i]]
             dx == RSub(positions[i + 1][1], positions[i][1])
             dy == RSub(positions[i + 1][2], positions[i][2])
             world_angle == Atan2(dy, dx)
             parent_world_angle ==
                 IF bone.parent_id # NoneId /\ bone.parent_id \in DOMAIN bs
                 THEN bs[bone.parent_id].world_angle
                 ELSE Zero
             solved ==
                 [bone EXCEPT
                     !.current_angle =
                         RSub(RSub(world_angle, parent_world_angle),
                              bone.rest_angle),
                     !.world_x = <<ToInt(positions[i][1])>>,
                     !.world_y = <<ToInt(positions[i][2])>>,
                     !.world_angle = world_angle]
         IN  WriteBack([bs EXCEPT ![ch[i]] = solved], ch, positions, i + 1)

\* lines 219-239: the skeleton after the call, with the chain, the positions
\* collected and solved, and the value returned
Finish(bs, ch, collected, positions, target) ==
    [bones |-> WriteBack(bs, ch, positions, 1),
     chain |-> ch, collected |-> collected, positions |-> positions,
     returned |-> RLt(Dist(positions[Len(positions)], target), Tolerance)]

\* lines 172-183, then the solver
Collected(bs, ch, target) ==
    LET bone_lengths == [i \in 1..Len(ch) |-> bs[ch[i]].length]
    IN  Finish(bs, ch, Positions(bs, ch),
               Solve(Positions(bs, ch), bone_lengths, target), target)

\* calculate_inverse_kinematics(skeleton, end_effector_id, target_x,
\* target_y)
calculate_inverse_kinematics(bs, end_effector_id, target) ==
    IF Len(get_chain(bs, end_effector_id)) < 2
    THEN [bones |-> bs, chain |-> get_chain(bs, end_effector_id),
          collected |-> <<>>, positions |-> <<>>, returned |-> FALSE]
    ELSE Collected(bs, get_chain(bs, end_effector_id), target)

-----------------------------------------------------------------------------
(* SpecIK: inverse kinematics on every skeleton over BoneIds, on the x axis *)

\* the x coordinates of the targets (target_y is 0)
IKTargets == {-2, 0, 2, 8}

\* a skeleton as constructed: every world field at its default
InitIK ==
    /\ bones \in Skeletons(0)
    /\ root_x = 1
    /\ root_y = 0
    /\ IdleIK /\ IdleFK
    /\ IdleAnim /\ IdleHist /\ IdleClip /\ IdleChain

\* calculate_forward_kinematics(skeleton)
PoseFK ==
    /\ bones' = Evaluated(calculate_forward_kinematics(bones, root_x, root_y))
    /\ fk_ran' = TRUE
    /\ ik' = NoIK(ik.solves)
    /\ UNCHANGED <<root_x, root_y, prev_bones>>
    /\ UNCHANGED <<animVars, histVars, clipVars, chainVars>>

\* calculate_inverse_kinematics(skeleton, e, x, 0.0)
SolveIK ==
    /\ ik.solves < MaxSolves
    /\ \E e \in BoneIds \cup {MissingId}, x \in IKTargets :
          \E out \in {calculate_inverse_kinematics(bones, e,
                                                   <<Int2R(x), Zero>>)} :
              /\ bones' = out.bones
              /\ ik' = [called |-> TRUE, solves |-> ik.solves + 1,
                        end_effector_id |-> e,
                        target |-> <<Int2R(x), Zero>>, after_fk |-> fk_ran,
                        chain |-> out.chain, collected |-> out.collected,
                        positions |-> out.positions,
                        returned |-> out.returned]
    /\ fk_ran' = FALSE
    /\ UNCHANGED <<root_x, root_y, prev_bones>>
    /\ UNCHANGED <<animVars, histVars, clipVars, chainVars>>

NextIK == PoseFK \/ SolveIK

SpecIK == InitIK /\ [][NextIK]_vars

\* joint i of the solved chain: bone i's world position, and past the last
\* bone the solved tip
Joint(i) ==
    IF i <= Len(ik.chain)
    THEN <<Int2R(bones[ik.chain[i]].world_x[1]),
           Int2R(bones[ik.chain[i]].world_y[1])>>
    ELSE ik.positions[i]

Solved == ik.called /\ Len(ik.chain) >= 2

\* C11: after calculate_inverse_kinematics on a chain of two or more bones,
\* for every target and every starting pose, each joint is at the bone's
\* length from the next (the last bone's position from the solved tip) and
\* the first joint is where the chain's root was.
C11_ChainLengths ==
    Solved =>
        /\ \A i \in 1..Len(ik.chain) :
              Dist(Joint(i), Joint(i + 1)) = Int2R(bones[ik.chain[i]].length)
        /\ Joint(1) = ik.collected[1]

\* C11 for the poses forward kinematics has just produced: the same
\* statement, which fails there too (target on a joint of a straight chain)
C11_AfterForwardKinematics ==
    (Solved /\ ik.after_fk) => C11_ChainLengths

\* what the solver does keep: a solved segment has the bone's length or has
\* collapsed to a point, and the first joint stays
C11_LengthOrCollapsed ==
    Solved =>
        /\ \A i \in 1..Len(ik.chain) :
              \/ Dist(Joint(i), Joint(i + 1)) = Int2R(bones[ik.chain[i]].length)
              \/ Joint(i) = Joint(i + 1)
        /\ Joint(1) = ik.collected[1]
-----------------------------------------------------------------------------
(* Animator                                                                *)

\* the Animator's fields as one record, which the methods below map to the
\* record after the call
Self ==
    [state |-> state, current_clip |-> current_clip,
     blend_clip |-> blend_clip, blend_alpha |-> blend_alpha,
     time |-> time, speed |-> speed,
     blend_duration |-> blend_duration, blend_time |-> blend_time]

Returned(a) == [raised |-> FALSE, self |-> a]
\* raise ValueError: the fields are as they were when it was raised
Raised(a)   == [raised |-> TRUE, self |-> a]

\* a faulty play that sets current_clip before it tests the name
PlayAssignsBeforeCheck(a, cl, clip_name, reset_time, spd) ==
    IF clip_name \notin DOMAIN cl
    THEN Raised([a EXCEPT !.current_clip = clip_name])
    ELSE Returned([a EXCEPT !.current_clip = clip_name,
                            !.state = "playing",
                            !.speed = spd,
                            !.blend_clip = NoClip,
                            !.blend_alpha = Zero,
                            !.time = IF reset_time THEN 0 ELSE @])

\* Animator.play
play(a, cl, clip_name, reset_time, spd) ==
    IF clip_name \notin DOMAIN cl
    THEN Raised(a)
    ELSE Returned([a EXCEPT !.current_clip = clip_name,
                            !.state = "playing",
                            !.speed = spd,
                            !.blend_clip = NoClip,
                            !.blend_alpha = Zero,
                            !.time = IF reset_time THEN 0 ELSE @])

\* a faulty stop that leaves current_clip set
StopKeepsClip(a) == [a EXCEPT !.state = "stopped", !.time = 0]

\* Animator.stop
stop(a) ==
    [a EXCEPT !.state = "stopped", !.time = 0, !.current_clip = NoClip]

\* a faulty pause that also pauses a blend
PauseAlsoFromBlending(a) ==
    IF a.state \in {"playing", "blending"}
    THEN [a EXCEPT !.state = "paused"] ELSE a

\* Animator.pause
pause(a) ==
    IF a.state = "playing" THEN [a EXCEPT !.state = "paused"] ELSE a

\* Animator.resume
resume(a) ==
    IF a.state = "paused" THEN [a EXCEPT !.state = "playing"] ELSE a

\* Animator.blend
blend(a, cl, clip1, clip2, alpha) ==
    IF clip1 \notin DOMAIN cl \/ clip2 \notin DOMAIN cl
    THEN Raised(a)
    ELSE Returned([a EXCEPT !.current_clip = clip1,
                            !.blend_clip = clip2,
                            !.blend_alpha = RMax(Zero, RMin(One, alpha)),
                            !.state = "blending"])

\* Animator.transition_to; clip names are not empty, so `if
\* self.current_clip` asks whether a clip is set
transition_to(a, cl, clip_name, dur) ==
    IF clip_name \notin DOMAIN cl
    THEN Raised(a)
    ELSE IF a.current_clip # NoClip
         THEN Returned([a EXCEPT !.blend_clip = clip_name,
                                 !.blend_duration = dur,
                                 !.blend_time = 0,
                                 !.state = "blending"])
         ELSE play(a, cl, clip_name, TRUE, 1)

\* Animator.update lines 408-415: the transition timer
AdvanceBlend(a, dt) ==
    IF a.state = "blending" /\ a.blend_duration > 0
    THEN LET bt    == a.blend_time + dt
             alpha == RMin(One, Frac(bt, a.blend_duration))
         IN  IF RLe(One, alpha)
             THEN [a EXCEPT !.blend_time = bt,
                            !.current_clip = a.blend_clip,
                            !.blend_clip = NoClip,
                            !.blend_alpha = Zero,
                            !.state = "playing"]
             ELSE [a EXCEPT !.blend_time = bt, !.blend_alpha = alpha]
    ELSE a

SampleClip(cl, name, t) == sample(cl[name].keyframes, cl[name].loop_mode, t)

\* Animator.update lines 418-430: the pose of the current clip, mixed with
\* the blend target's when one is set
ResolvePose(a, cl) ==
    LET pose == SampleClip(cl, a.current_clip, a.time)
    IN  IF a.blend_clip # NoClip /\ a.blend_clip \in DOMAIN cl
        THEN LET blend_pose == SampleClip(cl, a.blend_clip, a.time)
             IN  [b \in DOMAIN pose \cup DOMAIN blend_pose |->
                     Lerp(Get(pose, b), Get(blend_pose, b), a.blend_alpha)]
        ELSE pose

\* Animator.update
update(a, cl, bs, rx, ry, dt) ==
    IF a.state = "stopped" \/ a.state = "paused"
    THEN [self |-> a, bones |-> bs]
    ELSE LET a1 == [a EXCEPT !.time = @ + dt * a.speed]
             a2 == AdvanceBlend(a1, dt)
         IN  IF a2.current_clip # NoClip /\ a2.current_clip \in DOMAIN cl
             THEN [self |-> a2,
                   bones |-> ApplyPose(bs, ResolvePose(a2, cl), rx, ry)]
             ELSE [self |-> a2, bones |-> bs]

-----------------------------------------------------------------------------
(* Spec: an Animator driven by any sequence of calls                       *)

\* the skeleton: a root 0 and its child 1
AnimSkeleton ==
    [i \in 0..1 |-> Bone(i, IF i = 0 THEN NoneId ELSE i - 1, i + 1,
                         Int2R(i), 0)]

\* the clips of the program: A is given to the constructor, B is added by
\* add_clip, and no clip is named X. Bone 1 is in both clips, bone 0 only in
\* A, and bone 2, only in B, is not in the skeleton
ClipLib ==
    ("A" :> [keyframes |->
                <<Keyframe(0, (0 :> Int2R(0)) @@ (1 :> Int2R(4)), "linear"),
                  Keyframe(2, (0 :> Int2R(4)) @@ (1 :> Int2R(-4)), "linear")>>,
             loop_mode |-> "loop"])
    @@
    ("B" :> [keyframes |->
                <<Keyframe(0, (1 :> Int2R(8)) @@ (2 :> Int2R(2)), "cubic"),
                  Keyframe(3, (1 :> Int2R(-2)) @@ (2 :> Int2R(6)), "linear")>>,
             loop_mode |-> "once"])

ClipNames   == DOMAIN ClipLib
CallNames   == ClipNames \cup {"X"}
Speeds      == {1, 2}
Steps       == 0..2
Durations   == 0..2
BlendAlphas == {Frac(-1, 2), Zero, Frac(1, 2), One, Frac(3, 2)}

\* last: the call just made, whether it named a clip the Animator does not
\* hold, and whether it raised ValueError
Call(op, missing, raised) == [op |-> op, missing |-> missing, raised |-> raised]

NoSince == [op |-> "none"]

\* Animator(skeleton, {"A": clip A})
Init ==
    /\ clips = ("A" :> ClipLib["A"])
    /\ state = "stopped"
    /\ current_clip = NoClip
    /\ blend_clip = NoClip
    /\ blend_alpha = Zero
    /\ time = 0
    /\ speed = 1
    /\ blend_duration = 0
    /\ blend_time = 0
    /\ bones = AnimSkeleton
    /\ root_x = 0 /\ root_y = 0
    /\ last = Call("init", FALSE, FALSE)
    /\ since = NoSince
    /\ IdleClip /\ IdleChain /\ IdleFK /\ IdleIK

Commit(a) ==
    /\ state' = a.state
    /\ current_clip' = a.current_clip
    /\ blend_clip' = a.blend_clip
    /\ blend_alpha' = a.blend_alpha
    /\ time' = a.time
    /\ speed' = a.speed
    /\ blend_duration' = a.blend_duration
    /\ blend_time' = a.blend_time

Rest == UNCHANGED <<root_x, root_y, clipVars, chainVars, fkVars, ikVars>>

\* Animator.add_clip
AddClip ==
    /\ \E n \in ClipNames :
          /\ clips' = (n :> ClipLib[n]) @@ clips
          /\ last' = Call("add_clip", FALSE, FALSE)
    /\ since' = NoSince
    /\ UNCHANGED <<state, current_clip, blend_clip, blend_alpha, time, speed,
                   blend_duration, blend_time, bones>>
    /\ Rest

Play ==
    /\ \E n \in CallNames, r \in BOOLEAN, s \in Speeds :
          LET out == play(Self, clips, n, r, s)
          IN  /\ Commit(out.self)
              /\ last' = Call("play", n \notin DOMAIN clips, out.raised)
    /\ since' = NoSince
    /\ UNCHANGED <<clips, bones>>
    /\ Rest

Stop ==
    /\ Commit(stop(Self))
    /\ last' = Call("stop", FALSE, FALSE)
    /\ since' = NoSince
    /\ UNCHANGED <<clips, bones>>
    /\ Rest

Pause ==
    /\ Commit(pause(Self))
    /\ last' = Call("pause", FALSE, FALSE)
    /\ since' = NoSince
    /\ UNCHANGED <<clips, bones>>
    /\ Rest

Resume ==
    /\ Commit(resume(Self))
    /\ last' = Call("resume", FALSE, FALSE)
    /\ since' = NoSince
    /\ UNCHANGED <<clips, bones>>
    /\ Rest

Blend ==
    /\ \E c1 \in CallNames, c2 \in CallNames, alpha \in BlendAlphas :
          LET out == blend(Self, clips, c1, c2, alpha)
          IN  /\ Commit(out.self)
              /\ last' = Call("blend", {c1, c2} \ DOMAIN clips # {},
                               out.raised)
              /\ since' = IF out.raised THEN NoSince
                          ELSE [op |-> "blend", clip1 |-> c1, clip2 |-> c2,
                                alpha |-> alpha, updated |-> FALSE, sum |-> 0]
    /\ UNCHANGED <<clips, bones>>
    /\ Rest

TransitionTo ==
    /\ \E n \in CallNames, d \in Durations :
          LET out == transition_to(Self, clips, n, d)
          IN  /\ Commit(out.self)
              /\ last' = Call("transition_to", n \notin DOMAIN clips,
                               out.raised)
              /\ since' = IF out.raised THEN NoSince
                          ELSE [op |-> "transition_to", clip_name |-> n,
                                duration |-> d,
                                had_current |-> current_clip # NoClip,
                                updated |-> FALSE, sum |-> 0]
    /\ UNCHANGED <<clips, bones>>
    /\ Rest

\* update(dt), for the dt that keep the clock and the blend timer within
\* MaxTime
Update ==
    /\ \E dt \in Steps :
          LET out == update(Self, clips, bones, root_x, root_y, dt)
          IN  /\ out.self.time <= MaxTime
              /\ out.self.blend_time <= MaxTime
              /\ Commit(out.self)
              /\ bones' = out.bones
              /\ last' = Call("update", FALSE, FALSE)
              /\ since' = IF since.op = "none" THEN since
                          ELSE [since EXCEPT !.updated = TRUE, !.sum = @ + dt]
    /\ UNCHANGED clips
    /\ Rest

Next ==
    \/ AddClip \/ Play \/ Stop \/ Pause \/ Resume
    \/ Blend \/ TransitionTo \/ Update

Spec == Init /\ [][Next]_vars
-----------------------------------------------------------------------------
(* Claims about the Animator, checked under Spec                           *)

Fields == <<state, current_clip, blend_clip, blend_alpha, time, speed,
            blend_duration, blend_time>>

\* C1: a play or transition_to naming a clip that is not in the clip set,
\* and a blend with clip1 or clip2 not in it, raises 'clip not found' and
\* leaves every Animator field and every bone of the skeleton unchanged.
C1_AtomicFailure ==
    [][(last'.op \in {"play", "blend", "transition_to"} /\ last'.missing) =>
          /\ last'.raised
          /\ UNCHANGED <<Fields, bones, clips>>]_vars

\* a call was rejected while a blend was running and the clock had advanced
C1_Witness ==
    /\ last.raised
    /\ last.op = "blend"
    /\ state = "blending"
    /\ time > 0

\* C2 as claimed: after transition_to(B, d), d >= 0, made while a clip is
\* current and followed only by update(dt) calls whose dt sum to at least d,
\* state is Playing, current_clip is B and no blend target remains.
C2_TransitionCompletes ==
    (/\ since.op = "transition_to"
     /\ since.had_current
     /\ since.updated
     /\ since.sum >= since.duration) =>
        /\ state = "playing"
        /\ current_clip = since.clip_name
        /\ blend_clip = NoClip

\* C2 for d > 0, which the code does satisfy
C2_PositiveDurationCompletes ==
    (since.op = "transition_to" => since.duration > 0) =>
        C2_TransitionCompletes

Clamp01(alpha) == RMax(Zero, RMin(One, alpha))

\* C3 as claimed: after blend(c1, c2, alpha) with both clips existing, any
\* number of update(dt) calls leave state = Blending, current_clip = c1,
\* blend_clip = c2 and blend_alpha = alpha clamped to [0, 1]; of the
\* Animator's fields only the clock changes.
C3_BlendHasNoTimer ==
    [][(since'.op = "blend") =>
          /\ state' = "blending"
          /\ current_clip' = since'.clip1
          /\ blend_clip' = since'.clip2
          /\ blend_alpha' = Clamp01(since'.alpha)
          /\ (since.op = "blend" =>
                UNCHANGED <<speed, blend_duration, blend_time>>)]_vars

\* C4 as claimed: after blend(A, B, 0.0) and update(dt) every skeleton bone
\* in both clips' sampled poses has current_angle equal to clip A's sample
\* at the clock time; after blend(A, B, 1.0) and update(dt), to clip B's.
C4_BlendSymmetry ==
    (since.op = "blend" /\ since.updated /\ since.alpha \in {Zero, One}) =>
        LET poseA == SampleClip(clips, since.clip1, time)
            poseB == SampleClip(clips, since.clip2, time)
        IN  \A b \in DOMAIN bones \cap DOMAIN poseA \cap DOMAIN poseB :
               bones[b].current_angle =
                   IF since.alpha = Zero THEN poseA[b] ELSE poseB[b]

\* C4 in the runs where no transition_to has set a duration: there the
\* blend factor stays as blend set it and the symmetry holds
C4_WithoutStaleTimer ==
    blend_duration = 0 => C4_BlendSymmetry

\* C5: pause() changes state only from Playing to Paused and resume() only
\* from Paused to Playing; in any other state they change nothing, and they
\* never change current_clip, blend_clip, blend_alpha, the clock, the speed
\* or the blend timer.
C5_PauseResume ==
    [][/\ last'.op = "pause" =>
            state' = IF state = "playing" THEN "paused" ELSE state
       /\ last'.op = "resume" =>
            state' = IF state = "paused" THEN "playing" ELSE state
       /\ last'.op \in {"pause", "resume"} =>
            UNCHANGED <<current_clip, blend_clip, blend_alpha, time, speed,
                        blend_duration, blend_time, bones, clips>>]_vars

\* pause() took effect on a playing clip whose clock had advanced, or was
\* called during a blend and did nothing
C5_Witness ==
    /\ last.op = "pause"
    /\ time > 0
    /\ \/ state = "paused" /\ current_clip # NoClip
       \/ state = "blending"

\* C12: in every state reachable by add_clip, play, stop, pause, resume,
\* blend, transition_to and update calls, current_clip is None exactly when
\* the state is Stopped; while Blending both current_clip and blend_clip name
\* clips of the Animator; while Playing or Paused blend_clip is None.
C12_PlaybackConsistency ==
    /\ (current_clip = NoClip) <=> (state = "stopped")
    /\ state = "blending" =>
          /\ current_clip \in DOMAIN clips
          /\ blend_clip \in DOMAIN clips
    /\ state \in {"playing", "paused"} => blend_clip = NoClip

\* a transition from a playing clip has run to its end in update: the
\* target became current_clip and the blend target was cleared
C12_Witness ==
    /\ last.op = "update"
    /\ since.op = "transition_to"
    /\ since.had_current
    /\ since.updated
    /\ state = "playing"
    /\ current_clip = since.clip_name
    /\ blend_clip = NoClip
    /\ time > 0

====
